---------------------------- MODULE Spec2Model ----------------------------
(***************************************************************************)
(* Three-body integrator of src/main.rs: Body, Step, Step::update,         *)
(* Step::calculate_step, Step::calculate_bodies, Step::next_step and the   *)
(* driver simulate.                                                        *)
(*                                                                         *)
(* f64 values are modelled as binary floating-point numbers with the       *)
(* exponent range and the special values of IEEE-754 binary64 and a        *)
(* one-bit significand: NaN, +Inf, -Inf, 0 and +/- 2^e.  Results are       *)
(* rounded to the nearest representable value, overflow gives an infinity, *)
(* underflow gives zero.  Zero is unsigned: every zero the program starts  *)
(* from is +0.0 and x + (-0.0) = x keeps the accumulators at +0.0.         *)
(***************************************************************************)
EXTENDS Integers, Sequences, FiniteSets, TLC

(***************************************************************************)
(* Bounds of the model.                                                    *)
(***************************************************************************)
MaxCount == 3

(***************************************************************************)
(* Machine constants.                                                      *)
(***************************************************************************)
EMax == 1023
EMin == -1074
\* a u32 is kept as two 16-bit halves, the value being hi * 2^16 + lo
HalfMax == 65535

(***************************************************************************)
(* f64 arithmetic.                                                         *)
(***************************************************************************)
NaN == [k |-> "nan", s |-> 0, e |-> 0]
Zero == [k |-> "fin", s |-> 0, e |-> 0]

Inf(s) == [k |-> "inf", s |-> s, e |-> 0]

\* the finite value s * 2^e after range checking
Fin(s, e) ==
    IF s = 0 THEN Zero
    ELSE IF e > EMax THEN Inf(s)
    ELSE IF e < EMin THEN Zero
    ELSE [k |-> "fin", s |-> s, e |-> e]

IsNaN(a) == a.k = "nan"
IsInf(a) == a.k = "inf"
IsFinite(a) == a.k = "fin"
IsZero(a) == a.k = "fin" /\ a.s = 0

FNeg(a) == IF a.k = "nan" THEN NaN ELSE [a EXCEPT !.s = 0 - a.s]

\* a + b
FAdd(a, b) ==
    IF IsNaN(a) \/ IsNaN(b) THEN NaN
    ELSE IF IsInf(a) /\ IsInf(b) THEN (IF a.s = b.s THEN a ELSE NaN)
    ELSE IF IsInf(a) THEN a
    ELSE IF IsInf(b) THEN b
    ELSE IF a.s = 0 THEN b
    ELSE IF b.s = 0 THEN a
    ELSE IF a.s = b.s
         THEN IF a.e = b.e THEN Fin(a.s, a.e + 1)
              ELSE IF a.e = b.e + 1 THEN Fin(a.s, a.e + 1)
              ELSE IF b.e = a.e + 1 THEN Fin(a.s, b.e + 1)
              ELSE IF a.e > b.e THEN a ELSE b
    ELSE IF a.e = b.e THEN Zero
         ELSE IF a.e = b.e + 1 THEN Fin(a.s, b.e)
         ELSE IF b.e = a.e + 1 THEN Fin(b.s, a.e)
         ELSE IF a.e > b.e THEN a ELSE b

\* a - b
FSub(a, b) == FAdd(a, FNeg(b))

\* a * b
FMul(a, b) ==
    IF IsNaN(a) \/ IsNaN(b) THEN NaN
    ELSE IF IsInf(a) \/ IsInf(b)
         THEN IF a.s = 0 \/ b.s = 0 THEN NaN ELSE Inf(a.s * b.s)
    ELSE Fin(a.s * b.s, a.e + b.e)

\* a / b
FDiv(a, b) ==
    IF IsNaN(a) \/ IsNaN(b) THEN NaN
    ELSE IF IsInf(a) THEN (IF IsInf(b) THEN NaN
                           ELSE IF b.s = 0 THEN a ELSE Inf(a.s * b.s))
    ELSE IF IsInf(b) THEN Zero
    ELSE IF b.s = 0 THEN (IF a.s = 0 THEN NaN ELSE Inf(a.s))
    ELSE Fin(a.s * b.s, a.e - b.e)

\* f64::sqrt
FSqrt(a) ==
    IF IsNaN(a) THEN NaN
    ELSE IF a.s < 0 THEN NaN
    ELSE IF IsInf(a) THEN a
    ELSE IF a.s = 0 THEN Zero
    ELSE Fin(1, a.e \div 2)

\* the larger and the smaller of two integers
Max(m, n) == IF m >= n THEN m ELSE n

(***************************************************************************)
(* An angle is the f64 returned by atan2, kept as the direction it stands  *)
(* for: the signs sy, sx of the two arguments and the binary exponent t of *)
(* |y / x|.  sx = 0 is the value FRAC_PI_2 (with the sign sy), sy = 0 is   *)
(* 0.0 (sx > 0) or PI (sx < 0).  The f64 nearest to pi/2 lies below pi/2   *)
(* and the f64 nearest to pi lies below pi, so that cos(FRAC_PI_2) is      *)
(* 6.1e-17 = 1.1 * 2^-54 and sin(PI) is 1.2e-16 = 1.1 * 2^-53, not 0.      *)
(***************************************************************************)
CosPiHalfExp == -54
SinPiExp == -53
\* |y / x| >= 2^AxisSnap with x < 0: pi/2 + |x / y| rounds to FRAC_PI_2
AxisSnap == 55

NaNAngle == [k |-> "nan", sy |-> 0, sx |-> 0, t |-> 0]

Angle(sy, sx, t) == [k |-> "ang", sy |-> sy, sx |-> sx, t |-> t]

\* f64::atan2, y.atan2(x)
FAtan2(y, x) ==
    IF IsNaN(y) \/ IsNaN(x) THEN NaNAngle
    ELSE IF y.s = 0 THEN (IF x.s >= 0 THEN Angle(0, 1, 0) ELSE Angle(0, -1, 0))
    ELSE IF x.s = 0 THEN Angle(y.s, 0, 0)
    ELSE IF IsInf(y) THEN (IF IsInf(x) THEN Angle(y.s, x.s, 0)
                           ELSE Angle(y.s, 0, 0))
    ELSE IF IsInf(x) THEN (IF x.s > 0 THEN Angle(0, 1, 0)
                           ELSE Angle(y.s, -1, EMin - EMax))
    ELSE IF x.s < 0 /\ y.e - x.e >= AxisSnap THEN Angle(y.s, 0, 0)
    ELSE Angle(y.s, x.s, y.e - x.e)

\* f64::cos
FCos(a) ==
    IF a.k = "nan" THEN NaN
    ELSE IF a.sx = 0 THEN Fin(1, CosPiHalfExp)
    ELSE IF a.sy = 0 THEN Fin(a.sx, 0)
    ELSE IF a.t < 0 THEN Fin(a.sx, 0)
    ELSE IF a.t <= 1 THEN Fin(a.sx, -1)
    ELSE IF a.sx > 0 THEN Fin(1, Max(0 - a.t, CosPiHalfExp))
    ELSE Fin(-1, Max(0 - a.t, CosPiHalfExp + 1))

\* f64::sin
FSin(a) ==
    IF a.k = "nan" THEN NaN
    ELSE IF a.sy = 0 THEN (IF a.sx > 0 THEN Zero ELSE Fin(1, SinPiExp))
    ELSE IF a.sx = 0 THEN Fin(a.sy, 0)
    ELSE IF a.t > 0 THEN Fin(a.sy, 0)
    ELSE IF a.t >= -1 THEN Fin(a.sy, -1)
    ELSE IF a.sx > 0 THEN Fin(a.sy, a.t)
    ELSE Fin(a.sy, Max(a.t, SinPiExp))

(***************************************************************************)
(* Program constants (src/main.rs:4-6).  6.67430e-11 = 1.147 * 2^-34,      *)
(* 0.05 = 1.6 * 2^-5.                                                      *)
(***************************************************************************)
GRAVITATIONAL_CONSTANT == Fin(1, -34)
TIME_STEP == Fin(1, -5)

One == Fin(1, 0)

\* u32 values
U32(hi, lo) == [hi |-> hi, lo |-> lo]

U32Max == U32(HalfMax, HalfMax)

\* the u32 of a small natural number
U32Of(n) == U32(n \div (HalfMax + 1), n % (HalfMax + 1))

\* n + 1 on u32 without overflow checks (two's complement wrap)
WrappingInc(n) ==
    IF n.lo < HalfMax THEN U32(n.hi, n.lo + 1)
    ELSE U32((n.hi + 1) % (HalfMax + 1), 0)

(***************************************************************************)
(* Body and Step.                                                          *)
(***************************************************************************)
DVec2(x, y) == [x |-> x, y |-> y]

\* Body::new
BodyNew(position) ==
    [mass |-> One, position |-> position, velocity |-> DVec2(Zero, Zero)]

\* Step::new
StepNew(first, second, third) ==
    [time |-> Zero, step |-> U32Of(0),
     bodies |-> [n \in 0..2 |-> IF n = 0 THEN first
                                ELSE IF n = 1 THEN second ELSE third]]

\* Body::update
BodyUpdate(body, time_step) ==
    [body EXCEPT !.position =
        DVec2(FAdd(body.position.x, FMul(body.velocity.x, time_step)),
              FAdd(body.position.y, FMul(body.velocity.y, time_step)))]

\* the increment with a guard for coinciding bodies: r == 0 adds nothing
IncrementGuarded(a, b, time_step) ==
    LET dx == FSub(a.position.x, b.position.x)
        dy == FSub(a.position.y, b.position.y)
        r == FSqrt(FAdd(FMul(dx, dx), FMul(dy, dy)))
        force == FDiv(FDiv(FMul(FMul(GRAVITATIONAL_CONSTANT, a.mass), b.mass),
                           r), r)
        angle == FAtan2(dy, dx)
        fx == FMul(force, FCos(angle))
        fy == FMul(force, FSin(angle))
    IN  IF IsZero(r) THEN DVec2(Zero, Zero)
        ELSE DVec2(FMul(FDiv(fx, b.mass), time_step),
                   FMul(FDiv(fy, b.mass), time_step))

\* the amount calculate_bodies adds to the velocity of b for the body a
Increment(a, b, time_step) ==
    LET dx == FSub(a.position.x, b.position.x)
        dy == FSub(a.position.y, b.position.y)
        r == FSqrt(FAdd(FMul(dx, dx), FMul(dy, dy)))
        force == FDiv(FDiv(FMul(FMul(GRAVITATIONAL_CONSTANT, a.mass), b.mass),
                           r), r)
        angle == FAtan2(dy, dx)
        fx == FMul(force, FCos(angle))
        fy == FMul(force, FSin(angle))
    IN  DVec2(FMul(FDiv(fx, b.mass), time_step),
              FMul(FDiv(fy, b.mass), time_step))

\* calculate_bodies with the position update inlined: the body is moved as
\* soon as its velocity has changed
CalculateBodiesMoving(self, i, j, time_step) ==
    LET a == self.bodies[j]
        b == self.bodies[i]
        inc == Increment(a, b, time_step)
        b2 == [b EXCEPT !.velocity = DVec2(FAdd(b.velocity.x, inc.x),
                                           FAdd(b.velocity.y, inc.y))]
    IN  [self EXCEPT !.bodies[i] = BodyUpdate(b2, time_step)]

\* calculate_bodies that also gives body j the opposite increment
CalculateBodiesSymmetric(self, i, j, time_step) ==
    LET a == self.bodies[j]
        b == self.bodies[i]
        inc == Increment(a, b, time_step)
        b2 == [b EXCEPT !.velocity = DVec2(FAdd(b.velocity.x, inc.x),
                                           FAdd(b.velocity.y, inc.y))]
        a2 == [a EXCEPT !.velocity = DVec2(FSub(a.velocity.x, inc.x),
                                           FSub(a.velocity.y, inc.y))]
    IN  [self EXCEPT !.bodies[i] = b2, !.bodies[j] = a2]

\* Step::calculate_bodies
CalculateBodies(self, i, j, time_step) ==
    LET a == self.bodies[j]
        b == self.bodies[i]
        inc == Increment(a, b, time_step)
        b2 == [b EXCEPT !.velocity = DVec2(FAdd(b.velocity.x, inc.x),
                                           FAdd(b.velocity.y, inc.y))]
    IN  [self EXCEPT !.bodies[i] = b2]

\* calculate_step, the inner loop `for j in 0..3` for one i
CalculateRow(self, a, time_step) ==
    LET s0 == IF a # 0 THEN CalculateBodies(self, a, 0, time_step) ELSE self
        s1 == IF a # 1 THEN CalculateBodies(s0, a, 1, time_step) ELSE s0
    IN  IF a # 2 THEN CalculateBodies(s1, a, 2, time_step) ELSE s1

\* Step::calculate_step
CalculateStep(self, time_step) ==
    CalculateRow(CalculateRow(CalculateRow(self, 0, time_step),
                              1, time_step), 2, time_step)

\* Step::update
StepUpdate(self, time_step) ==
    LET c == CalculateStep(self, time_step)
    IN  [c EXCEPT !.bodies =
            [m \in 0..2 |-> BodyUpdate(c.bodies[m], time_step)]]

\* next_step that leaves the time as it is
NextStepStaleTime(self, time_step) ==
    [time |-> self.time,
     step |-> WrappingInc(self.step),
     bodies |-> self.bodies]

\* next_step that integrates the bodies once more
NextStepUpdating(self, time_step) ==
    [time |-> FAdd(self.time, time_step),
     step |-> WrappingInc(self.step),
     bodies |-> StepUpdate(self, time_step).bodies]

\* Step::next_step
NextStep(self, time_step) ==
    [time |-> FAdd(self.time, time_step),
     step |-> WrappingInc(self.step),
     bodies |-> self.bodies]

(***************************************************************************)
(* Inputs of simulate.                                                     *)
(***************************************************************************)
\* the positions of main and of tests::test_simulate
First == BodyNew(DVec2(Fin(1, -2), Fin(1, -2)))
Second == BodyNew(DVec2(Fin(-1, -1), Zero))
Third == BodyNew(DVec2(Fin(1, -1), Zero))
\* a body at rest on the diagonal and a heavier one moving towards it
Diagonal == BodyNew(DVec2(Fin(1, -1), Fin(1, -1)))
Moving == [mass |-> Fin(1, 1), position |-> DVec2(Fin(1, -2), Fin(1, -2)),
           velocity |-> DVec2(Fin(1, -1), Fin(1, -1))]

InitialBodies == {First, Second, Third, Diagonal, Moving}

\* the time steps: TIME_STEP of main, 0.5 of tests::test_simulate, and 0
TimeSteps == {TIME_STEP, Fin(1, -1), Zero}

\* the clocks of the initial Step: that of Step::new, and one whose counter
\* is u32::MAX
InitialClocks ==
    {[time |-> Zero, step |-> U32Of(0)],
     [time |-> One, step |-> U32Max]}

(***************************************************************************)
(* State.                                                                  *)
(*   step, count, time_step   the arguments of simulate; step is the       *)
(*                            mutable local the loop works on              *)
(*   steps                    the Vec<Step> being built                    *)
(*   done                     iterations of `for _ in 0..count` completed  *)
(*   i, j                     the loop variables of calculate_step         *)
(*   n                        the position of bodies.iter_mut()            *)
(*   pc                       the position in simulate                     *)
(*   overflow_checks          the build profile: true for a build with     *)
(*                            overflow checks (debug), false without       *)
(* History variables, not read by any action:                              *)
(*   initial                  the Step simulate was called with            *)
(*   start                    the Step at the start of the current tick    *)
(*   calls                    the (i, j) of the calculate_bodies calls of  *)
(*                            the current tick, with the increment applied *)
(***************************************************************************)
VARIABLES step, count, time_step, steps, done, i, j, n, pc, overflow_checks,
          initial, start, calls

vars == <<step, count, time_step, steps, done, i, j, n, pc, overflow_checks,
          initial, start, calls>>

Init ==
    /\ \E clock \in InitialClocks, bodies \in [0..2 -> InitialBodies] :
          step = [time |-> clock.time, step |-> clock.step, bodies |-> bodies]
    /\ count \in 0..MaxCount
    /\ time_step \in TimeSteps
    /\ overflow_checks \in BOOLEAN
    /\ steps = <<>>
    /\ done = 0
    /\ i = 0
    /\ j = 0
    /\ n = 0
    /\ pc = "start"
    /\ initial = step
    /\ start = step
    /\ calls = <<>>

\* simulate, line 111: Vec::with_capacity(count)
WithCapacity ==
    /\ pc = "start"
    /\ steps' = <<>>
    /\ pc' = "loop"
    /\ UNCHANGED <<step, count, time_step, done, i, j, n, overflow_checks,
                   initial, start, calls>>

\* simulate, line 113: the range 0..count yields another value
LoopNext ==
    /\ pc = "loop"
    /\ done < count
    /\ pc' = "calc"
    /\ i' = 0
    /\ j' = 0
    /\ start' = step
    /\ calls' = <<>>
    /\ UNCHANGED <<step, count, time_step, steps, done, n, overflow_checks,
                   initial>>

\* simulate, lines 113 and 119: the range is exhausted, steps is returned
Return ==
    /\ pc = "loop"
    /\ done = count
    /\ pc' = "done"
    /\ UNCHANGED <<step, count, time_step, steps, done, i, j, n,
                   overflow_checks, initial, start, calls>>

\* calculate_step: the loop variables after the body for (i, j)
Advance ==
    IF j < 2 THEN i' = i /\ j' = j + 1 /\ pc' = "calc" /\ n' = n
    ELSE IF i < 2 THEN i' = i + 1 /\ j' = 0 /\ pc' = "calc" /\ n' = n
    ELSE i' = i /\ j' = j /\ pc' = "move" /\ n' = 0

\* calculate_step without the test i != j
CallSelf ==
    /\ pc = "calc"
    /\ i = j
    /\ step' = CalculateBodies(step, i, j, time_step)
    /\ calls' = Append(calls, [i |-> i, j |-> j,
                  inc |-> Increment(step.bodies[j], step.bodies[i], time_step)])
    /\ Advance
    /\ UNCHANGED <<count, time_step, steps, done, overflow_checks, initial,
                   start>>

\* calculate_step, line 74: i == j, nothing is called
SkipSelf ==
    /\ pc = "calc"
    /\ i = j
    /\ Advance
    /\ UNCHANGED <<step, count, time_step, steps, done, overflow_checks,
                   initial, start, calls>>

\* calculate_step, line 75: self.calculate_bodies(i, j, time_step)
CalculatePair ==
    /\ pc = "calc"
    /\ i # j
    /\ step' = CalculateBodies(step, i, j, time_step)
    /\ calls' = Append(calls, [i |-> i, j |-> j,
                  inc |-> Increment(step.bodies[j], step.bodies[i], time_step)])
    /\ Advance
    /\ UNCHANGED <<count, time_step, steps, done, overflow_checks, initial,
                   start>>

\* Step::update, lines 58-60: body.update(time_step) for the next body
MoveBody ==
    /\ pc = "move"
    /\ step' = [step EXCEPT !.bodies[n] = BodyUpdate(step.bodies[n], time_step)]
    /\ IF n < 2 THEN n' = n + 1 /\ pc' = "move"
                ELSE n' = n /\ pc' = "push"
    /\ UNCHANGED <<count, time_step, steps, done, i, j, overflow_checks,
                   initial, start, calls>>

\* a loop that pushes the Step twice
PushTwice ==
    /\ pc = "push"
    /\ steps' = Append(Append(steps, step), step)
    /\ pc' = "next"
    /\ UNCHANGED <<step, count, time_step, done, i, j, n, overflow_checks,
                   initial, start, calls>>

\* simulate, line 115: steps.push(step)
Push ==
    /\ pc = "push"
    /\ steps' = Append(steps, step)
    /\ pc' = "next"
    /\ UNCHANGED <<step, count, time_step, done, i, j, n, overflow_checks,
                   initial, start, calls>>

\* simulate, line 116: step = step.next_step(time_step)
Next_step ==
    /\ pc = "next"
    /\ ~(overflow_checks /\ step.step = U32Max)
    /\ step' = NextStep(step, time_step)
    /\ done' = done + 1
    /\ pc' = "loop"
    /\ UNCHANGED <<count, time_step, steps, i, j, n, overflow_checks, initial,
                   start, calls>>

\* next_step, line 66: self.step + 1 overflows in a build with overflow
\* checks: panic "attempt to add with overflow"
OverflowPanic ==
    /\ pc = "next"
    /\ overflow_checks
    /\ step.step = U32Max
    /\ pc' = "panic"
    /\ UNCHANGED <<step, count, time_step, steps, done, i, j, n,
                   overflow_checks, initial, start, calls>>

Next ==
    \/ WithCapacity
    \/ LoopNext
    \/ Return
    \/ SkipSelf
    \/ CalculatePair
    \/ MoveBody
    \/ Push
    \/ Next_step
    \/ OverflowPanic

Spec == Init /\ [][Next]_vars

(***************************************************************************)
(* Auxiliary definitions of the properties.                                *)
(***************************************************************************)
\* s is an initial segment of t
IsPrefix(s, t) ==
    /\ Len(s) <= Len(t)
    /\ \A m \in 1..Len(s) : s[m] = t[m]

\* the number of Steps pushed so far, from the position in the loop
Pushed == IF pc \in {"next", "panic"} THEN done + 1 ELSE done

\* dt added m times to 0.0
RECURSIVE TimeAfter(_, _)
TimeAfter(m, dt) == IF m = 0 THEN Zero ELSE FAdd(TimeAfter(m - 1, dt), dt)

\* simulate was called with a Step of Step::new
FromStepNew == initial.time = Zero /\ initial.step = U32Of(0)

\* the bodies tick m (1-based index into steps) started from
StartOfTick(m) == IF m = 1 THEN initial.bodies ELSE steps[m - 1].bodies

\* the calculate_bodies calls of one tick, in the order of calculate_step
SixPairs == << <<0, 1>>, <<0, 2>>, <<1, 0>>, <<1, 2>>, <<2, 0>>, <<2, 1>> >>

\* the (i, j) of the calls made so far in the current tick
CalledPairs == [m \in 1..Len(calls) |-> <<calls[m].i, calls[m].j>>]

\* the number of calls calculate_step has made when its loop is at (a, b)
CallsBefore(a, b) == 2 * a + (IF b > a THEN b - 1 ELSE b)

\* a value is Inf or NaN
NonFinite(a) == ~IsFinite(a)

\* both bodies are at the same finite point, so that r == 0
SamePosition(a, b) ==
    /\ a.position = b.position
    /\ IsFinite(a.position.x)
    /\ IsFinite(a.position.y)

\* every component of the velocity and of the position is Inf or NaN
Degenerate(b) ==
    /\ NonFinite(b.velocity.x) /\ NonFinite(b.velocity.y)
    /\ NonFinite(b.position.x) /\ NonFinite(b.position.y)

\* the velocity of body b after a tick computed from a copy snap of the
\* bodies: its two contributions added in ascending order of j
SnapshotVelocity(snap, b, dt) ==
    LET j1 == IF b = 0 THEN 1 ELSE 0
        j2 == IF b = 2 THEN 1 ELSE 2
        c1 == Increment(snap[j1], snap[b], dt)
        c2 == Increment(snap[j2], snap[b], dt)
    IN  DVec2(FAdd(FAdd(snap[b].velocity.x, c1.x), c2.x),
              FAdd(FAdd(snap[b].velocity.y, c1.y), c2.y))

\* the sign of a value: -1, 0, 1, and 2 for NaN
Sgn(a) == IF IsNaN(a) THEN 2 ELSE a.s

(***************************************************************************)
(* C1: whenever simulate returns, the returned sequence has exactly count  *)
(* elements; at every point of the loop the sequence holds one Step per    *)
(* iteration begun past its push, and no step of the program removes or    *)
(* alters an element already pushed.                                       *)
(***************************************************************************)
C1_TickCountInv ==
    /\ Len(steps) = Pushed
    /\ pc = "done" => Len(steps) = count

C1_TickCount ==
    /\ []C1_TickCountInv
    /\ [][/\ IsPrefix(steps, steps')
          /\ Len(steps') <= Len(steps) + 1]_vars

C1_Witness == pc = "done" /\ count >= 2 /\ Len(steps) = count

(***************************************************************************)
(* C2: started from a Step of Step::new, element m of the output (0-based) *)
(* carries step == m and time == dt added m times to 0.0; the first        *)
(* element carries step 0 and time 0.                                      *)
(***************************************************************************)
C2_ClockConsistency ==
    FromStepNew =>
        \A m \in 1..Len(steps) :
            /\ steps[m].step = U32Of(m - 1)
            /\ steps[m].time = TimeAfter(m - 1, time_step)

C2_Witness ==
    /\ FromStepNew
    /\ pc = "done"
    /\ Len(steps) >= 3
    /\ steps[3].time # Zero

(***************************************************************************)
(* C4: simulate runs every configured tick and returns; it never aborts.   *)
(* Stated as: the loop never reaches a panic.                              *)
(***************************************************************************)
C4_NeverPanics == pc # "panic"

(***************************************************************************)
(* C5: the first output element holds the bodies of one Step::update of    *)
(* the initial bodies, every later element those of one Step::update of    *)
(* the element before it, and next_step leaves the bodies as they are.     *)
(***************************************************************************)
C5_ThreadingInv ==
    \A m \in 1..Len(steps) :
        steps[m].bodies =
            StepUpdate([time |-> steps[m].time, step |-> steps[m].step,
                        bodies |-> StartOfTick(m)], time_step).bodies

C5_Threading ==
    /\ []C5_ThreadingInv
    /\ [][pc = "next" => step'.bodies = step.bodies]_vars

C5_Witness ==
    /\ pc = "done"
    /\ Len(steps) >= 2
    /\ steps[1].bodies # initial.bodies
    /\ steps[2].bodies # steps[1].bodies

(***************************************************************************)
(* C6: while calculate_step runs, time, step and every body's mass and     *)
(* position are those of the start of the tick, and every pair computation *)
(* made so far added what the start-of-tick bodies give; Body::update runs *)
(* only after all six calls, on the bodies in index order.                 *)
(***************************************************************************)
C6_VelocityBeforePosition ==
    /\ pc = "calc" =>
          /\ step.time = start.time
          /\ step.step = start.step
          /\ \A b \in 0..2 :
                /\ step.bodies[b].position = start.bodies[b].position
                /\ step.bodies[b].mass = start.bodies[b].mass
    /\ pc \in {"calc", "move", "push", "next"} =>
          \A m \in 1..Len(calls) :
              calls[m].inc = Increment(start.bodies[calls[m].j],
                                       start.bodies[calls[m].i], time_step)
    /\ pc = "move" =>
          /\ Len(calls) = 6
          /\ \A b \in n..2 :
                step.bodies[b].position = start.bodies[b].position

C6_Witness ==
    /\ pc = "move"
    /\ n = 1
    /\ step.bodies[0].position # start.bodies[0].position
    /\ \A b \in 0..2 : step.bodies[b].velocity # start.bodies[b].velocity

(***************************************************************************)
(* C7: calculate_step calls calculate_bodies for (0,1) (0,2) (1,0) (1,2)   *)
(* (2,0) (2,1), in this order, never for i == j, and a step of             *)
(* calculate_step changes no body other than bodies[i] (none at all when   *)
(* i == j).                                                                *)
(***************************************************************************)
C7_SixPairsInv ==
    /\ pc = "calc" =>
          /\ Len(calls) = CallsBefore(i, j)
          /\ CalledPairs = SubSeq(SixPairs, 1, Len(calls))
    /\ pc \in {"move", "push", "next"} => CalledPairs = SixPairs

C7_SixPairs ==
    /\ []C7_SixPairsInv
    /\ [][pc = "calc" =>
            \A b \in 0..2 :
                (b # i \/ i = j) => step'.bodies[b] = step.bodies[b]]_vars

C7_Witness ==
    /\ pc = "move"
    /\ CalledPairs = SixPairs
    /\ \A b \in 0..2 : step.bodies[b] # start.bodies[b]

(***************************************************************************)
(* C8: after the six in-place calls of calculate_step every body's         *)
(* velocity equals the one computed from a copy of the bodies taken at the *)
(* start of the tick, its two contributions added in ascending j.          *)
(***************************************************************************)
C8_SnapshotEquivalence ==
    pc = "move" =>
        \A b \in 0..2 :
            step.bodies[b].velocity =
                SnapshotVelocity(start.bodies, b, time_step)

C8_Witness ==
    /\ pc = "move"
    /\ done >= 1
    /\ \A b \in 0..2 :
          /\ step.bodies[b].velocity # start.bodies[b].velocity
          /\ step.bodies[b].velocity = SnapshotVelocity(start.bodies, b, time_step)

(***************************************************************************)
(* C9: if two bodies are at the same point at the start of tick k, both    *)
(* have non-finite velocity and position in output[k] and in every later   *)
(* output element, and simulate still returns count Steps.                 *)
(***************************************************************************)
C9_DegeneracyAbsorbing ==
    /\ \A k \in 1..Len(steps) : \A a \in 0..2 : \A b \in 0..2 :
          (a # b /\ SamePosition(StartOfTick(k)[a], StartOfTick(k)[b])) =>
              \A m \in k..Len(steps) :
                  /\ Degenerate(steps[m].bodies[a])
                  /\ Degenerate(steps[m].bodies[b])
    /\ pc = "done" => Len(steps) = count

C9_Witness ==
    /\ pc = "done"
    /\ Len(steps) = 3
    /\ \E a \in 0..2 : \E b \in 0..2 :
          /\ a # b
          /\ ~SamePosition(StartOfTick(1)[a], StartOfTick(1)[b])
          /\ SamePosition(StartOfTick(2)[a], StartOfTick(2)[b])
          /\ Degenerate(steps[2].bodies[a])
          /\ Degenerate(steps[3].bodies[b])

(***************************************************************************)
(* C10: for every pair computation (i, j) of the current tick with         *)
(* distinct finite positions, positive masses and a positive time step,    *)
(* the increment added to the velocity of body i has, on each axis, the    *)
(* sign of position[j] - position[i] (zero where the displacement is 0).   *)
(***************************************************************************)
C10_AttractionDirection ==
    pc \in {"calc", "move"} =>
        \A m \in 1..Len(calls) :
            LET a == start.bodies[calls[m].j]
                b == start.bodies[calls[m].i]
                dx == FSub(a.position.x, b.position.x)
                dy == FSub(a.position.y, b.position.y)
            IN  (/\ IsFinite(dx) /\ IsFinite(dy)
                 /\ a.position # b.position
                 /\ a.mass.s > 0 /\ IsFinite(a.mass)
                 /\ b.mass.s > 0 /\ IsFinite(b.mass)
                 /\ time_step.s > 0 /\ IsFinite(time_step))
                => /\ Sgn(calls[m].inc.x) = Sgn(dx)
                   /\ Sgn(calls[m].inc.y) = Sgn(dy)

=============================================================================
